---- MODULE Spec2Model ----
(***************************************************************************)
(* Model of the render pipeline's RPLight value object (rp_light.I), the   *)
(* RenderStage target bookkeeping (render_stage.cpp) and the stage setup   *)
(* of the env-probes plugin (env_probes_plugin.cpp).                       *)
(*                                                                         *)
(* Three specifications share the module:                                  *)
(*   LightSpec - one RPLight driven by its public operations;              *)
(*   Spec      - the env-probes plugin and the render stages it creates;   *)
(*   StageSpec - the stage manager driving UpdatePreviousPipesStage,       *)
(*               PSSMShadowStage and SkyAOCaptureStage through create(),   *)
(*               reload_shaders(), get_produced_pipes(), set_shader_input()*)
(*               and handle_window_resize().                               *)
(***************************************************************************)
EXTENDS Integers, Sequences, FiniteSets, TLC

VARIABLES
    \* ---- RPLight (rp_light.I) ----
    _shadow_sources,    \* sequence of [id, needs_update], the attached ShadowSources
    _needs_update,      \* BOOLEAN
    _slot,              \* Int, -1 when detached
    _position,          \* <<x, y, z>>
    _color,             \* [num |-> <<r, g, b>>, den |-> d]: the colour num/den
    _energy,            \* Int
    _casts_shadows,     \* BOOLEAN
    _source_resolution, \* Nat
    _ies_profile,       \* Int, -1 when none
    _near_plane,        \* Nat, in millionths
    lcall,              \* the last RPLight operation called and its arguments
    lret,               \* what the last RPLight call returned (source id or NULL)
    lassert,            \* TRUE iff the last RPLight call failed an nassert
    lerr,               \* TRUE iff the last RPLight call printed to std::cerr
    \* ---- RenderStage / EnvProbesPlugin ----
    enabled_plugins,    \* set of plugin ids enabled in the configuration
    setup_done,         \* TRUE once on_stage_setup() has run
    assigned_stages_,   \* sequence of stages the plugin added, in order
    required_pipes,     \* capture stage's required pipes (sequence of names)
    required_inputs,    \* capture stage's required inputs (sequence of names)
    global_required_inputs, \* CullLightsStage global required inputs
    input_blocks,       \* names of the input blocks given to the stage manager
    targets_,           \* [stage -> set of [key, id]], each stage's target map
    target_removed,     \* ids of the live targets on which remove() was called
    scall,              \* the last stage operation called and its arguments
    sret,               \* what the last stage call returned (target id or NULL)
    serr,               \* the error the last stage call reported, "" when none
    slog,               \* the calls the last stage operation made, in order
    \* ---- stages under the stage manager ----
    Globals_resolution, \* Globals::resolution, <<x, y>>
    textures,           \* [texture -> [x_size, y_size, z_size, type]]
    transfers_,         \* UpdatePreviousPipesStage: sequence of [first, second]
    member,             \* [stage -> [target, convert]], the stages' target pointers
    target_inputs,      \* [target id -> set of [name, tex]], inputs set on a target
    render_inputs,      \* inputs set on Globals::render
    stage_created,      \* [stage -> number of create() calls executed]
    shader_uniforms,    \* uniforms the last reload_shaders() declared, in order
    null_deref          \* TRUE once a null target pointer was dereferenced

lightVars == <<_shadow_sources, _needs_update, _slot, _position, _color, _energy,
               _casts_shadows, _source_resolution, _ies_profile, _near_plane,
               lcall, lret, lassert, lerr>>
stageVars == <<enabled_plugins, setup_done, assigned_stages_, required_pipes,
               required_inputs, global_required_inputs, input_blocks, targets_,
               target_removed, scall, sret, serr, slog>>
lifeVars == <<Globals_resolution, textures, transfers_, member, target_inputs,
              render_inputs, stage_created, shader_uniforms, null_deref>>
vars == <<lightVars, stageVars, lifeVars>>

\* nullptr, as a target or shadow source handle
NULL == -1

-----------------------------------------------------------------------------
(* Bounds of the model *)

\* most shadow sources a light spawns
MaxSources == 2
\* largest light slot the light manager hands out
MaxSlot == 1
\* most RenderTarget objects alive at a time
MaxTargets == 3
\* most transfers registered with the previous-pipes stage
MaxTransfers == 2

(* Program constants *)

\* smallest and largest accepted shadow map resolution
MinResolution == 32
MaxResolution == 16384
\* near planes are kept in millionths; the assertion's 0.00001 is 10 of them
NearPlaneEpsilon == 10

(* Input values *)

Vec3(x, y, z) == <<x, y, z>>
PosValues == {Vec3(1, 2, 3)}
ColorValues == {Vec3(1, 0, 0)}
EnergyValues == {5}
SlotValues == 0..MaxSlot
ResolutionValues == {MinResolution - 1, MinResolution, MaxResolution, MaxResolution + 1}
IesValues == {-1, 0}
NearPlaneValues == {-1, 0, 5, 10, 1000000}

-----------------------------------------------------------------------------
(* RPLight *)

LCall(op, flag, n, vec) == [op |-> op, flag |-> flag, n |-> n, vec |-> vec]
NoVec == Vec3(0, 0, 0)

\* the effect of a call that returns nothing, asserts nothing, prints nothing
LDone(op, flag, n, vec) ==
    /\ lcall' = LCall(op, flag, n, vec)
    /\ lret' = NULL
    /\ lassert' = FALSE
    /\ lerr' = FALSE

get_num_shadow_sources == Len(_shadow_sources)

\* nassertr(index < size, nullptr); return _shadow_sources[index].get();
get_shadow_source_value(index) ==
    IF index < Len(_shadow_sources) THEN _shadow_sources[index + 1].id ELSE NULL

\* the assertion off by one: index = size passes
get_shadow_source_asserts_inclusive(index) == ~(index <= Len(_shadow_sources))

get_shadow_source_asserts(index) == ~(index < Len(_shadow_sources))

get_shadow_source(index) ==
    /\ lcall' = LCall("get_shadow_source", FALSE, index, NoVec)
    /\ lret' = get_shadow_source_value(index)
    /\ lassert' = get_shadow_source_asserts(index)
    /\ lerr' = FALSE
    /\ UNCHANGED <<_shadow_sources, _needs_update, _slot, _position, _color, _energy,
                   _casts_shadows, _source_resolution, _ies_profile, _near_plane>>

clear_shadow_sources ==
    /\ _shadow_sources' = <<>>
    /\ LDone("clear_shadow_sources", FALSE, 0, NoVec)
    /\ UNCHANGED <<_needs_update, _slot, _position, _color, _energy,
                   _casts_shadows, _source_resolution, _ies_profile, _near_plane>>

set_needs_update(flag) ==
    /\ _needs_update' = flag
    /\ LDone("set_needs_update", flag, 0, NoVec)
    /\ UNCHANGED <<_shadow_sources, _slot, _position, _color, _energy,
                   _casts_shadows, _source_resolution, _ies_profile, _near_plane>>

get_needs_update == _needs_update

\* slot 0 taken for "no slot"
has_slot_positive == _slot > 0

has_slot == _slot >= 0

get_slot == _slot

\* detaching also drops the pending update
remove_slot_resets ==
    /\ _slot' = -1
    /\ _needs_update' = FALSE
    /\ LDone("remove_slot", FALSE, 0, NoVec)
    /\ UNCHANGED <<_shadow_sources, _position, _color, _energy,
                   _casts_shadows, _source_resolution, _ies_profile, _near_plane>>

remove_slot ==
    /\ _slot' = -1
    /\ LDone("remove_slot", FALSE, 0, NoVec)
    /\ UNCHANGED <<_shadow_sources, _needs_update, _position, _color, _energy,
                   _casts_shadows, _source_resolution, _ies_profile, _near_plane>>

assign_slot(slot) ==
    /\ _slot' = slot
    /\ LDone("assign_slot", FALSE, slot, NoVec)
    /\ UNCHANGED <<_shadow_sources, _needs_update, _position, _color, _energy,
                   _casts_shadows, _source_resolution, _ies_profile, _near_plane>>

\* the shadow source list after invalidate_shadows()
invalidated(sources) ==
    [i \in 1..Len(sources) |-> [sources[i] EXCEPT !.needs_update = TRUE]]

invalidate_shadows ==
    /\ _shadow_sources' = invalidated(_shadow_sources)
    /\ LDone("invalidate_shadows", FALSE, 0, NoVec)
    /\ UNCHANGED <<_needs_update, _slot, _position, _color, _energy,
                   _casts_shadows, _source_resolution, _ies_profile, _near_plane>>

\* the position change without invalidate_shadows()
set_pos_effect_keeps_shadows(x, y, z) ==
    /\ _position' = Vec3(x, y, z)
    /\ _needs_update' = TRUE
    /\ UNCHANGED <<_shadow_sources, _slot, _color, _energy,
                   _casts_shadows, _source_resolution, _ies_profile, _near_plane>>

\* set_pos(float x, float y, float z): the state change, shared by both overloads
set_pos_effect(x, y, z) ==
    /\ _position' = Vec3(x, y, z)
    /\ _needs_update' = TRUE
    /\ _shadow_sources' = invalidated(_shadow_sources)
    /\ UNCHANGED <<_slot, _color, _energy,
                   _casts_shadows, _source_resolution, _ies_profile, _near_plane>>

set_pos_xyz(x, y, z) ==
    /\ set_pos_effect(x, y, z)
    /\ LDone("set_pos_xyz", FALSE, 0, Vec3(x, y, z))

\* set_pos(const LVecBase3f&) forwards its three components
set_pos_vec(pos) ==
    /\ set_pos_effect(pos[1], pos[2], pos[3])
    /\ LDone("set_pos_vec", FALSE, 0, pos)

get_pos == _position

\* _color = color; _color /= 0.2126 r + 0.7152 g + 0.0722 b, kept as a fraction
\* over ten-thousandths
normalized(color) ==
    [num |-> Vec3(10000 * color[1], 10000 * color[2], 10000 * color[3]),
     den |-> 2126 * color[1] + 7152 * color[2] + 722 * color[3]]

\* the colour change with an invalidate_shadows() added
set_color_effect_invalidates(color) ==
    /\ _color' = normalized(color)
    /\ _needs_update' = TRUE
    /\ _shadow_sources' = invalidated(_shadow_sources)
    /\ UNCHANGED <<_slot, _position, _energy,
                   _casts_shadows, _source_resolution, _ies_profile, _near_plane>>

set_color_effect(color) ==
    /\ _color' = normalized(color)
    /\ _needs_update' = TRUE
    /\ UNCHANGED <<_shadow_sources, _slot, _position, _energy,
                   _casts_shadows, _source_resolution, _ies_profile, _near_plane>>

set_color_vec(color) ==
    /\ set_color_effect(color)
    /\ LDone("set_color_vec", FALSE, 0, color)

\* set_color(float r, float g, float b) builds the vector and forwards it
set_color_rgb(r, g, b) ==
    /\ set_color_effect(Vec3(r, g, b))
    /\ LDone("set_color_rgb", FALSE, 0, Vec3(r, g, b))

get_color == _color

set_energy(energy) ==
    /\ _energy' = energy
    /\ _needs_update' = TRUE
    /\ LDone("set_energy", FALSE, energy, NoVec)
    /\ UNCHANGED <<_shadow_sources, _slot, _position, _color,
                   _casts_shadows, _source_resolution, _ies_profile, _near_plane>>

get_energy == _energy

\* the setter without the has_slot() guard
set_casts_shadows_unguarded(flag) ==
    /\ _casts_shadows' = flag
    /\ LDone("set_casts_shadows", flag, 0, NoVec)
    /\ UNCHANGED <<_shadow_sources, _needs_update, _slot, _position, _color, _energy,
                   _source_resolution, _ies_profile, _near_plane>>

set_casts_shadows(flag) ==
    /\ lcall' = LCall("set_casts_shadows", flag, 0, NoVec)
    /\ lret' = NULL
    /\ lassert' = FALSE
    /\ IF has_slot
         THEN /\ lerr' = TRUE
              /\ UNCHANGED _casts_shadows
         ELSE /\ lerr' = FALSE
              /\ _casts_shadows' = flag
    /\ UNCHANGED <<_shadow_sources, _needs_update, _slot, _position, _color, _energy,
                   _source_resolution, _ies_profile, _near_plane>>

get_casts_shadows == _casts_shadows

\* the range check with strict comparisons
set_shadow_map_resolution_strict(resolution) ==
    /\ lcall' = LCall("set_shadow_map_resolution", FALSE, resolution, NoVec)
    /\ lret' = NULL
    /\ lerr' = FALSE
    /\ IF resolution > MinResolution /\ resolution < MaxResolution
         THEN /\ lassert' = FALSE
              /\ _source_resolution' = resolution
              /\ _shadow_sources' = invalidated(_shadow_sources)
         ELSE /\ lassert' = TRUE
              /\ UNCHANGED <<_source_resolution, _shadow_sources>>
    /\ UNCHANGED <<_needs_update, _slot, _position, _color, _energy,
                   _casts_shadows, _ies_profile, _near_plane>>

set_shadow_map_resolution(resolution) ==
    /\ lcall' = LCall("set_shadow_map_resolution", FALSE, resolution, NoVec)
    /\ lret' = NULL
    /\ lerr' = FALSE
    /\ IF resolution >= MinResolution /\ resolution <= MaxResolution
         THEN /\ lassert' = FALSE
              /\ _source_resolution' = resolution
              /\ _shadow_sources' = invalidated(_shadow_sources)
         ELSE /\ lassert' = TRUE
              /\ UNCHANGED <<_source_resolution, _shadow_sources>>
    /\ UNCHANGED <<_needs_update, _slot, _position, _color, _energy,
                   _casts_shadows, _ies_profile, _near_plane>>

get_shadow_map_resolution == _source_resolution

set_ies_profile_effect(profile) ==
    /\ _ies_profile' = profile
    /\ _needs_update' = TRUE
    /\ UNCHANGED <<_shadow_sources, _slot, _position, _color, _energy,
                   _casts_shadows, _source_resolution, _near_plane>>

set_ies_profile(profile) ==
    /\ set_ies_profile_effect(profile)
    /\ LDone("set_ies_profile", FALSE, profile, NoVec)

get_ies_profile == _ies_profile

\* handle 0 taken for "no profile"
has_ies_profile_positive == _ies_profile > 0

has_ies_profile == _ies_profile >= 0

\* clear_ies_profile() is set_ies_profile(-1)
clear_ies_profile ==
    /\ set_ies_profile_effect(-1)
    /\ LDone("clear_ies_profile", FALSE, 0, NoVec)

\* the assertion as near_plane > 0
set_near_plane_positive(near_plane) ==
    /\ lcall' = LCall("set_near_plane", FALSE, near_plane, NoVec)
    /\ lret' = NULL
    /\ lerr' = FALSE
    /\ IF near_plane > 0
         THEN /\ lassert' = FALSE
              /\ _near_plane' = near_plane
              /\ _shadow_sources' = invalidated(_shadow_sources)
         ELSE /\ lassert' = TRUE
              /\ UNCHANGED <<_near_plane, _shadow_sources>>
    /\ UNCHANGED <<_needs_update, _slot, _position, _color, _energy,
                   _casts_shadows, _source_resolution, _ies_profile>>

set_near_plane(near_plane) ==
    /\ lcall' = LCall("set_near_plane", FALSE, near_plane, NoVec)
    /\ lret' = NULL
    /\ lerr' = FALSE
    /\ IF near_plane > NearPlaneEpsilon
         THEN /\ lassert' = FALSE
              /\ _near_plane' = near_plane
              /\ _shadow_sources' = invalidated(_shadow_sources)
         ELSE /\ lassert' = TRUE
              /\ UNCHANGED <<_near_plane, _shadow_sources>>
    /\ UNCHANGED <<_needs_update, _slot, _position, _color, _energy,
                   _casts_shadows, _source_resolution, _ies_profile>>

get_near_plane == _near_plane

\* The light manager spawns the light's shadow sources when a shadow-casting
\* light is attached; a new source starts out needing an update.
init_shadows(n) ==
    /\ has_slot
    /\ _casts_shadows
    /\ _shadow_sources' = [i \in 1..n |-> [id |-> i - 1, needs_update |-> TRUE]]
    /\ LDone("init_shadows", FALSE, n, NoVec)
    /\ UNCHANGED <<_needs_update, _slot, _position, _color, _energy,
                   _casts_shadows, _source_resolution, _ies_profile, _near_plane>>

\* get_shadow_source(n)->set_needs_update(flag): the shadow manager clears the
\* flag of a source it has rendered
ShadowSource_set_needs_update(index, flag) ==
    /\ index < Len(_shadow_sources)
    /\ _shadow_sources' = [_shadow_sources EXCEPT ![index + 1].needs_update = flag]
    /\ LDone("ShadowSource_set_needs_update", flag, index, NoVec)
    /\ UNCHANGED <<_needs_update, _slot, _position, _color, _energy,
                   _casts_shadows, _source_resolution, _ies_profile, _near_plane>>

\* a freshly constructed, detached light
LightInit ==
    /\ _shadow_sources = <<>>
    /\ _needs_update = FALSE
    /\ _slot = -1
    /\ _position = Vec3(0, 0, 0)
    /\ _color = [num |-> Vec3(1, 1, 1), den |-> 1]
    /\ _energy = 20
    /\ _casts_shadows = FALSE
    /\ _source_resolution = 512
    /\ _ies_profile = -1
    /\ _near_plane = 500000
    /\ lcall = LCall("RPLight", FALSE, 0, NoVec)
    /\ lret = NULL
    /\ lassert = FALSE
    /\ lerr = FALSE

LightNext ==
    \/ \E index \in 0..MaxSources : get_shadow_source(index)
    \/ clear_shadow_sources
    \/ \E flag \in BOOLEAN : set_needs_update(flag)
    \/ remove_slot
    \/ \E slot \in SlotValues : assign_slot(slot)
    \/ invalidate_shadows
    \/ \E pos \in PosValues : set_pos_xyz(pos[1], pos[2], pos[3])
    \/ \E pos \in PosValues : set_pos_vec(pos)
    \/ \E color \in ColorValues : set_color_vec(color)
    \/ \E color \in ColorValues : set_color_rgb(color[1], color[2], color[3])
    \/ \E energy \in EnergyValues : set_energy(energy)
    \/ \E flag \in BOOLEAN : set_casts_shadows(flag)
    \/ \E resolution \in ResolutionValues : set_shadow_map_resolution(resolution)
    \/ \E profile \in IesValues : set_ies_profile(profile)
    \/ clear_ies_profile
    \/ \E near_plane \in NearPlaneValues : set_near_plane(near_plane)
    \/ \E n \in 1..MaxSources : init_shadows(n)
    \/ \E index \in 0..(MaxSources - 1), flag \in BOOLEAN :
          ShadowSource_set_needs_update(index, flag)

-----------------------------------------------------------------------------
(* RenderStage *)

\* the stages the env-probes plugin creates, by stage id
CaptureStage == "EnvironmentCaptureStage"
CullStage == "CullProbesStage"
ApplyStage == "ApplyEnvprobesStage"
Stages == {CaptureStage, CullStage, ApplyStage}

\* the stages driven through their lifecycle by the stage manager
UpdatePreviousPipesStage == "UpdatePreviousPipesStage"
PSSMShadowStage == "PSSMShadowStage"
SkyAOCaptureStage == "SkyAOCaptureStage"
ManagedStages == {UpdatePreviousPipesStage, PSSMShadowStage, SkyAOCaptureStage}

AllStages == Stages \cup ManagedStages

TargetNames == {"A", "B"}
TargetIds == 0..(MaxTargets - 1)

SCall(op, stage, name, target) ==
    [op |-> op, stage |-> stage, name |-> name, target |-> target]

Ev(ev, stage, target) == [ev |-> ev, stage |-> stage, target |-> target]

\* the stages that have been constructed
created == {assigned_stages_[i] : i \in 1..Len(assigned_stages_)}

get_plugin_id(stage) ==
    CASE stage = UpdatePreviousPipesStage -> "render_pipeline_internal"
      [] stage = PSSMShadowStage -> "pssm"
      [] stage = SkyAOCaptureStage -> "sky_ao"
      [] OTHER -> "env_probes"

\* fmt::format("{}:{}:{}", get_plugin_id(), stage_id_, name)
target_name(stage, name) == get_plugin_id(stage) \o ":" \o stage \o ":" \o name

keys(map) == {e.key : e \in map}
ids(map) == {e.id : e \in map}

\* targets_.find(key) != targets_.end()
contains(map, key) == \E e \in map : e.key = key

\* std::map::emplace: no insertion when the key is present
emplace(map, key, id) ==
    IF contains(map, key) THEN map ELSE map \cup {[key |-> key, id |-> id]}

\* every RenderTarget object alive, over all stages
live_targets == UNION {ids(targets_[s]) : s \in AllStages}

\* the address std::make_unique hands out: some object not alive
fresh_target == CHOOSE id \in TargetIds \ live_targets :
                    \A other \in TargetIds \ live_targets : id <= other

\* the target is created without looking for the key first
create_target_unchecked(stage, name) ==
    LET key == target_name(stage, name) IN
    /\ stage \in created
    /\ TargetIds \ live_targets # {}
    /\ scall' = SCall("create_target", stage, name, NULL)
    /\ slog' = <<>>
    /\ serr' = ""
    /\ sret' = fresh_target
    /\ targets_' = [targets_ EXCEPT ![stage] = @ \cup {[key |-> key, id |-> fresh_target]}]
    /\ UNCHANGED <<target_removed, enabled_plugins, setup_done, assigned_stages_,
                   required_pipes, required_inputs, global_required_inputs,
                   input_blocks>>

create_target(stage, name) ==
    LET key == target_name(stage, name) IN
    /\ stage \in created
    /\ scall' = SCall("create_target", stage, name, NULL)
    /\ slog' = <<>>
    /\ IF contains(targets_[stage], key)
         THEN /\ serr' = "Overriding existing target: " \o key
              /\ sret' = NULL
              /\ UNCHANGED targets_
         ELSE /\ TargetIds \ live_targets # {}
              /\ serr' = ""
              /\ sret' = fresh_target
              /\ targets_' = [targets_ EXCEPT ![stage] = emplace(@, key, fresh_target)]
    /\ UNCHANGED <<target_removed, enabled_plugins, setup_done, assigned_stages_,
                   required_pipes, required_inputs, global_required_inputs,
                   input_blocks>>

\* target->remove(), then the entry holding the pointer is erased, which
\* destroys the RenderTarget; a target of another stage stays in its owner's map
remove_target(stage, target) ==
    /\ stage \in created
    /\ target \in live_targets
    /\ scall' = SCall("remove_target", stage, "", target)
    /\ slog' = <<Ev("remove", stage, target)>>
    /\ sret' = NULL
    /\ serr' = ""
    /\ targets_' = [targets_ EXCEPT ![stage] = {e \in @ : e.id # target}]
    /\ target_removed' = IF target \in ids(targets_[stage])
                           THEN target_removed \ {target}
                           ELSE target_removed \cup {target}
    /\ UNCHANGED <<enabled_plugins, setup_done, assigned_stages_,
                   required_pipes, required_inputs, global_required_inputs,
                   input_blocks>>

\* every order in which a loop over the map can visit its entries
RECURSIVE orders(_)
orders(map) ==
    IF map = {} THEN {<<>>}
    ELSE UNION {{<<e>> \o rest : rest \in orders(map \ {e})} : e \in map}

\* the virtual set_dimensions() of the stage, as the call it is
set_dimensions(stage) == <<Ev("set_dimensions", stage, NULL)>>

\* for (target: targets_) target.second->consider_resize();
consider_resize_all(stage, order) ==
    [i \in 1..Len(order) |-> Ev("consider_resize", stage, order[i].id)]

\* the targets are resized before the stage's dimensions are set
handle_window_resize_calls_late(stage, order) ==
    consider_resize_all(stage, order) \o set_dimensions(stage)

handle_window_resize_calls(stage, order) ==
    set_dimensions(stage) \o consider_resize_all(stage, order)

handle_window_resize(stage) ==
    /\ stage \in created
    /\ scall' = SCall("handle_window_resize", stage, "", NULL)
    /\ \E order \in orders(targets_[stage]) :
          slog' = handle_window_resize_calls(stage, order)
    /\ sret' = NULL
    /\ serr' = ""
    /\ UNCHANGED <<targets_, target_removed, enabled_plugins, setup_done,
                   assigned_stages_, required_pipes, required_inputs,
                   global_required_inputs, input_blocks>>

-----------------------------------------------------------------------------
(* EnvProbesPlugin *)

Plugins == {"scattering", "pssm"}

is_plugin_enabled(plugin) == plugin \in enabled_plugins

\* BasePlugin::add_stage: the stage joins the plugin's stages, in call order
add_stage(stages, stage) == Append(stages, stage)

\* what the capture stage requires before the plugin adds to it
BaseRequiredInputs == <<"DefaultEnvmap">>

\* the scattering pipes required whether or not the plugin is enabled
scattering_pipes_always == <<"ScatteringIBLSpecular", "ScatteringIBLDiffuse">>

scattering_pipes ==
    IF is_plugin_enabled("scattering")
      THEN <<"ScatteringIBLSpecular", "ScatteringIBLDiffuse">>
      ELSE <<>>

pssm_pipes ==
    IF is_plugin_enabled("pssm") THEN <<"PSSMSceneSunShadowMapPCF">> ELSE <<>>

pssm_inputs ==
    IF is_plugin_enabled("pssm") THEN <<"PSSMSceneSunShadowMVP">> ELSE <<>>

\* setup_stages(): three add_stage calls, then the conditional requirements
setup_stages ==
    /\ assigned_stages_' =
          add_stage(add_stage(add_stage(assigned_stages_, CaptureStage), CullStage),
                    ApplyStage)
    /\ required_pipes' = required_pipes \o scattering_pipes \o pssm_pipes
    /\ required_inputs' = required_inputs \o pssm_inputs

\* setup_inputs(): the EnvProbes block is registered and required by light culling
setup_inputs ==
    /\ input_blocks' = input_blocks \cup {"EnvProbes"}
    /\ global_required_inputs' = Append(global_required_inputs, "EnvProbes")

\* on_stage_setup(): the probe manager is set up (not modelled), then
\* setup_stages(), which ends with setup_inputs(); the hook runs once
on_stage_setup ==
    /\ ~setup_done
    /\ setup_done' = TRUE
    /\ setup_stages
    /\ setup_inputs
    /\ scall' = SCall("on_stage_setup", "", "", NULL)
    /\ slog' = <<>>
    /\ sret' = NULL
    /\ serr' = ""
    /\ UNCHANGED <<enabled_plugins, targets_, target_removed>>

StageInit ==
    /\ enabled_plugins \in SUBSET Plugins
    /\ setup_done = FALSE
    /\ assigned_stages_ = <<>>
    /\ required_pipes = <<>>
    /\ required_inputs = BaseRequiredInputs
    /\ global_required_inputs = <<>>
    /\ input_blocks = {}
    /\ targets_ = [s \in AllStages |-> {}]
    /\ target_removed = {}
    /\ scall = SCall("RenderPipeline", "", "", NULL)
    /\ sret = NULL
    /\ serr = ""
    /\ slog = <<>>

StageNext ==
    \/ on_stage_setup
    \/ \E stage \in Stages, name \in TargetNames : create_target(stage, name)
    \/ \E stage \in Stages, target \in TargetIds : remove_target(stage, target)
    \/ \E stage \in Stages : handle_window_resize(stage)

-----------------------------------------------------------------------------
(* Stages under the stage manager *)

pluginVars == <<enabled_plugins, setup_done, assigned_stages_, required_pipes,
                required_inputs, global_required_inputs, input_blocks,
                target_removed>>

\* the textures the pipeline offers as transfer sources: a 2D texture and a
\* 2D texture array of two layers
SourceTextures == {0, 1}
SourceTexture(tex) ==
    IF tex = 0
      THEN [x_size |-> 4, y_size |-> 4, z_size |-> 1, type |-> "2d"]
      ELSE [x_size |-> 4, y_size |-> 4, z_size |-> 2, type |-> "array"]

\* the window sizes a resize event brings
ScreenSizes == {<<800, 600>>, <<1024, 768>>}

\* the inputs handed to RenderStage::set_shader_input
ShaderInput(name, tex) == [name |-> name, tex |-> tex]
ShaderInputValues == {ShaderInput("inp", NULL)}

\* std::to_string on a size_t
Digits == <<"0", "1", "2", "3", "4", "5", "6", "7", "8", "9">>
RECURSIVE to_string(_)
to_string(i) ==
    IF i < 10 THEN Digits[i + 1] ELSE to_string(i \div 10) \o Digits[(i % 10) + 1]

\* the address of a new RenderTarget: the lowest one that holds no live target
alloc(live) ==
    CHOOSE id \in 0..Cardinality(live) :
        id \notin live /\ \A other \in 0..(id - 1) : other \in live

\* create_target(name) of a stage, as the map it leaves, the pointer it returns
\* and the error it reports
create_target_result(map, stage, name, live) ==
    LET key == target_name(stage, name) IN
    IF contains(map, key)
      THEN [map |-> map, ret |-> NULL,
            err |-> "Overriding existing target: " \o key]
      ELSE [map |-> emplace(map, key, alloc(live)), ret |-> alloc(live), err |-> ""]

\* RenderTarget::set_shader_input: an input replaces the one of the same name
set_input(inputs, inp) == {i \in inputs : i.name # inp.name} \cup {inp}

RECURSIVE set_inputs(_, _)
set_inputs(inputs, inps) ==
    IF inps = <<>> THEN inputs
    ELSE set_inputs(set_input(inputs, Head(inps)), Tail(inps))

\* the inputs of the targets in `owned` after each was given `inp`
with_input(all_inputs, owned, inp) ==
    [t \in DOMAIN all_inputs |->
        IF t \in owned THEN set_input(all_inputs[t], inp) ELSE all_inputs[t]]

\* the stage manager registers a transfer before the stage is created: the
\* destination is a new texture made as a copy of the source
add_transfer(src) ==
    LET dst == Cardinality(DOMAIN textures) IN
    /\ ~null_deref
    /\ stage_created[UpdatePreviousPipesStage] = 0
    /\ Len(transfers_) < MaxTransfers
    /\ textures' = textures @@ (dst :> textures[src])
    /\ transfers_' = Append(transfers_, [first |-> src, second |-> dst])
    /\ scall' = SCall("add_transfer", UpdatePreviousPipesStage, "", src)
    /\ sret' = NULL
    /\ serr' = ""
    /\ slog' = <<>>
    /\ UNCHANGED <<Globals_resolution, member, target_inputs, render_inputs, stage_created,
                   shader_uniforms, null_deref, targets_>>
    /\ UNCHANGED pluginVars

\* a window event stores the new size in Globals::resolution
set_resolution(size) ==
    /\ ~null_deref
    /\ Globals_resolution' = size
    /\ scall' = SCall("set_resolution", "", "", NULL)
    /\ sret' = NULL
    /\ serr' = ""
    /\ slog' = <<>>
    /\ UNCHANGED <<textures, transfers_, member, target_inputs, render_inputs,
                   stage_created, shader_uniforms, null_deref, targets_>>
    /\ UNCHANGED pluginVars

\* the SrcTex<i>/DestTex<i> inputs create() binds, in call order
RECURSIVE transfer_inputs(_)
transfer_inputs(transfers) ==
    IF transfers = <<>> THEN <<>>
    ELSE LET n == Len(transfers)
             last == to_string(n - 1)
         IN  transfer_inputs(SubSeq(transfers, 1, n - 1))
               \o <<ShaderInput("SrcTex" \o last, transfers[n].first),
                    ShaderInput("DestTex" \o last, transfers[n].second)>>


\* what every lifecycle call leaves behind besides its own effect
SDone(op, stage) ==
    /\ scall' = SCall(op, stage, "", NULL)
    /\ sret' = NULL
    /\ slog' = <<>>
    /\ UNCHANGED pluginVars

\* create() keeping the new target in a local instead of target_
UpdatePreviousPipesStage_create_local ==
    LET stage == UpdatePreviousPipesStage
        r == create_target_result(targets_[stage], stage, "StorePreviousPipes",
                                  live_targets)
    IN  /\ stage_created' = [stage_created EXCEPT ![stage] = @ + 1]
        /\ UNCHANGED member
        /\ targets_' = [targets_ EXCEPT ![stage] = r.map]
        /\ serr' = r.err
        /\ IF r.ret = NULL
             THEN /\ null_deref' = TRUE
                  /\ UNCHANGED target_inputs
             ELSE /\ UNCHANGED null_deref
                  /\ target_inputs' = target_inputs @@
                        (r.ret :> set_inputs({}, transfer_inputs(transfers_)))
        /\ SDone("create", stage)
        /\ UNCHANGED <<Globals_resolution, textures, transfers_, render_inputs,
                       shader_uniforms>>

\* UpdatePreviousPipesStage::create(): the target is created and prepared,
\* then the SrcTex<i>/DestTex<i> inputs are set on it
UpdatePreviousPipesStage_create ==
    LET stage == UpdatePreviousPipesStage
        r == create_target_result(targets_[stage], stage, "StorePreviousPipes",
                                  live_targets)
    IN  /\ stage_created' = [stage_created EXCEPT ![stage] = @ + 1]
        /\ member' = [member EXCEPT ![stage].target = r.ret]
        /\ targets_' = [targets_ EXCEPT ![stage] = r.map]
        /\ serr' = r.err
        /\ IF r.ret = NULL
             THEN /\ null_deref' = TRUE
                  /\ UNCHANGED target_inputs
             ELSE /\ UNCHANGED null_deref
                  /\ target_inputs' = target_inputs @@
                        (r.ret :> set_inputs({}, transfer_inputs(transfers_)))
        /\ SDone("create", stage)
        /\ UNCHANGED <<Globals_resolution, textures, transfers_, render_inputs,
                       shader_uniforms>>

\* the textures after the first n transfers had their destination resized
RECURSIVE resized(_, _, _, _)
resized(texs, transfers, size, n) ==
    IF n = 0 THEN texs
    ELSE LET before == resized(texs, transfers, size, n - 1)
             from == transfers[n].first
             to == transfers[n].second
             xy == [before EXCEPT ![to].x_size = size[1], ![to].y_size = size[2]]
         IN  IF xy[to].type = "array"
               THEN [xy EXCEPT ![to].z_size = xy[from].z_size]
               ELSE xy

\* the loop over the transfers stopping after the first one
UpdatePreviousPipesStage_set_dimensions_first ==
    resized(textures, transfers_, Globals_resolution,
            IF Len(transfers_) > 1 THEN 1 ELSE Len(transfers_))

\* UpdatePreviousPipesStage::set_dimensions(), as the textures it leaves
UpdatePreviousPipesStage_set_dimensions ==
    resized(textures, transfers_, Globals_resolution, Len(transfers_))

\* get_sampler_type(tex, can_write)
get_sampler_type(tex, can_write) ==
    IF can_write
      THEN IF textures[tex].type = "array"
             THEN "writeonly image2DArray" ELSE "writeonly image2D"
      ELSE IF textures[tex].type = "array" THEN "sampler2DArray" ELSE "sampler2D"

\* the uniforms reload_shaders() collects, in order
RECURSIVE collect_uniforms(_)
collect_uniforms(transfers) ==
    IF transfers = <<>> THEN <<>>
    ELSE LET n == Len(transfers)
             index == to_string(n - 1)
         IN  collect_uniforms(SubSeq(transfers, 1, n - 1))
               \o <<get_sampler_type(transfers[n].first, FALSE) \o " SrcTex" \o index,
                    get_sampler_type(transfers[n].second, TRUE) \o " DestTex" \o index>>

\* UpdatePreviousPipesStage::reload_shaders(): the shader is generated from the
\* transfers and set on target_
UpdatePreviousPipesStage_reload_shaders ==
    LET stage == UpdatePreviousPipesStage IN
    /\ shader_uniforms' = collect_uniforms(transfers_)
    /\ null_deref' = (member[stage].target = NULL)
    /\ serr' = ""
    /\ SDone("reload_shaders", stage)
    /\ UNCHANGED <<Globals_resolution, textures, transfers_, member, target_inputs,
                   render_inputs, stage_created, targets_>>

\* PSSMShadowStage::create(): the shadow map target and its display regions
PSSMShadowStage_create ==
    LET stage == PSSMShadowStage
        r == create_target_result(targets_[stage], stage, "ShadowMap", live_targets)
    IN  /\ stage_created' = [stage_created EXCEPT ![stage] = @ + 1]
        /\ member' = [member EXCEPT ![stage].target = r.ret]
        /\ targets_' = [targets_ EXCEPT ![stage] = r.map]
        /\ serr' = r.err
        /\ null_deref' = (r.ret = NULL)
        /\ target_inputs' = IF r.ret = NULL THEN target_inputs
                            ELSE target_inputs @@ (r.ret :> {})
        /\ SDone("create", stage)
        /\ UNCHANGED <<Globals_resolution, textures, transfers_, render_inputs,
                       shader_uniforms>>

\* PSSMShadowStage::get_produced_pipes() reads _target->get_depth_tex()
PSSMShadowStage_get_produced_pipes ==
    LET stage == PSSMShadowStage IN
    /\ null_deref' = (member[stage].target = NULL)
    /\ serr' = ""
    /\ SDone("get_produced_pipes", stage)
    /\ UNCHANGED <<Globals_resolution, textures, transfers_, member, target_inputs,
                   render_inputs, stage_created, shader_uniforms, targets_>>

\* PSSMShadowStage::set_shader_input: the input goes to Globals::render
PSSMShadowStage_set_shader_input(inp) ==
    /\ render_inputs' = set_input(render_inputs, inp)
    /\ UNCHANGED target_inputs

\* SkyAOCaptureStage::create(): the capture target, then the convert target,
\* which gets the DepthTex and position inputs
SkyAOCaptureStage_create ==
    LET stage == SkyAOCaptureStage
        r1 == create_target_result(targets_[stage], stage, "SkyAOCapture",
                                   live_targets)
        live1 == live_targets \cup ids(r1.map)
        r2 == create_target_result(r1.map, stage, "ConvertDepth", live1)
    IN  /\ stage_created' = [stage_created EXCEPT ![stage] = @ + 1]
        /\ serr' = IF r1.ret = NULL THEN r1.err ELSE r2.err
        /\ IF r1.ret = NULL
             THEN /\ null_deref' = TRUE
                  /\ member' = [member EXCEPT ![stage].target = NULL]
                  /\ UNCHANGED <<targets_, target_inputs>>
             ELSE IF r2.ret = NULL
             THEN /\ null_deref' = TRUE
                  /\ member' = [member EXCEPT ![stage].target = r1.ret,
                                              ![stage].convert = NULL]
                  /\ targets_' = [targets_ EXCEPT ![stage] = r1.map]
                  /\ target_inputs' = target_inputs @@ (r1.ret :> {})
             ELSE /\ UNCHANGED null_deref
                  /\ member' = [member EXCEPT ![stage].target = r1.ret,
                                              ![stage].convert = r2.ret]
                  /\ targets_' = [targets_ EXCEPT ![stage] = r2.map]
                  /\ target_inputs' = target_inputs @@ (r1.ret :> {}) @@
                        (r2.ret :> set_inputs({}, <<ShaderInput("DepthTex", NULL),
                                                    ShaderInput("position", NULL)>>))
        /\ SDone("create", stage)
        /\ UNCHANGED <<Globals_resolution, textures, transfers_, render_inputs,
                       shader_uniforms>>

\* SkyAOCaptureStage::reload_shaders() sets the shader on target_convert_
SkyAOCaptureStage_reload_shaders ==
    LET stage == SkyAOCaptureStage IN
    /\ null_deref' = (member[stage].convert = NULL)
    /\ serr' = ""
    /\ SDone("reload_shaders", stage)
    /\ UNCHANGED <<Globals_resolution, textures, transfers_, member, target_inputs,
                   render_inputs, stage_created, shader_uniforms, targets_>>

\* SkyAOCaptureStage::get_produced_pipes() reads target_convert_->get_color_tex()
SkyAOCaptureStage_get_produced_pipes ==
    LET stage == SkyAOCaptureStage IN
    /\ null_deref' = (member[stage].convert = NULL)
    /\ serr' = ""
    /\ SDone("get_produced_pipes", stage)
    /\ UNCHANGED <<Globals_resolution, textures, transfers_, member, target_inputs,
                   render_inputs, stage_created, shader_uniforms, targets_>>

\* RenderStage::get_produced_pipes(): nothing is produced, nothing is read
RenderStage_get_produced_pipes(stage) ==
    /\ serr' = ""
    /\ SDone("get_produced_pipes", stage)
    /\ UNCHANGED <<Globals_resolution, textures, transfers_, member, target_inputs,
                   render_inputs, stage_created, shader_uniforms, null_deref,
                   targets_>>

\* the input given to the targets of every stage
RenderStage_set_shader_input_everywhere(stage, inp) ==
    /\ target_inputs' = with_input(target_inputs, DOMAIN target_inputs, inp)
    /\ UNCHANGED render_inputs

\* RenderStage::set_shader_input: every target of the stage gets the input
RenderStage_set_shader_input(stage, inp) ==
    /\ target_inputs' = with_input(target_inputs, ids(targets_[stage]), inp)
    /\ UNCHANGED render_inputs

\* set_shader_input(inp) on a stage, through its override if it has one
set_shader_input(stage, inp) ==
    /\ ~null_deref
    /\ IF stage = PSSMShadowStage
         THEN PSSMShadowStage_set_shader_input(inp)
         ELSE RenderStage_set_shader_input(stage, inp)
    /\ scall' = SCall("set_shader_input", stage, inp.name, NULL)
    /\ sret' = NULL
    /\ serr' = ""
    /\ slog' = <<>>
    /\ UNCHANGED <<Globals_resolution, textures, transfers_, member, stage_created,
                   shader_uniforms, null_deref, targets_>>
    /\ UNCHANGED pluginVars

\* handle_window_resize() of a managed stage: set_dimensions(), which resizes
\* the transfer destinations of the previous-pipes stage, then consider_resize()
\* on each target
Stage_handle_window_resize(stage) ==
    /\ textures' = IF stage = UpdatePreviousPipesStage
                     THEN UpdatePreviousPipesStage_set_dimensions
                     ELSE textures
    /\ scall' = SCall("handle_window_resize", stage, "", NULL)
    /\ \E order \in orders(targets_[stage]) :
          slog' = handle_window_resize_calls(stage, order)
    /\ sret' = NULL
    /\ serr' = ""
    /\ UNCHANGED <<Globals_resolution, transfers_, member, target_inputs, render_inputs,
                   stage_created, shader_uniforms, null_deref, targets_>>
    /\ UNCHANGED pluginVars

\* the stage manager sets a stage up once
StageManager_create(stage) ==
    /\ ~null_deref
    /\ stage_created[stage] = 0
    /\ CASE stage = UpdatePreviousPipesStage -> UpdatePreviousPipesStage_create
         [] stage = PSSMShadowStage -> PSSMShadowStage_create
         [] stage = SkyAOCaptureStage -> SkyAOCaptureStage_create

\* the stage manager asks a stage it has set up for its pipes
StageManager_get_produced_pipes(stage) ==
    /\ ~null_deref
    /\ stage_created[stage] > 0
    /\ CASE stage = UpdatePreviousPipesStage -> RenderStage_get_produced_pipes(stage)
         [] stage = PSSMShadowStage -> PSSMShadowStage_get_produced_pipes
         [] stage = SkyAOCaptureStage -> SkyAOCaptureStage_get_produced_pipes

\* the stage manager reloads the shaders of a stage it has set up
StageManager_reload_shaders(stage) ==
    /\ ~null_deref
    /\ stage_created[stage] > 0
    /\ CASE stage = UpdatePreviousPipesStage -> UpdatePreviousPipesStage_reload_shaders
         [] stage = SkyAOCaptureStage -> SkyAOCaptureStage_reload_shaders

\* the stage manager passes a window resize on to a stage it has set up
StageManager_handle_window_resize(stage) ==
    /\ ~null_deref
    /\ stage_created[stage] > 0
    /\ Stage_handle_window_resize(stage)

\* Globals::load() and the stages as constructed
LifeInit ==
    /\ Globals_resolution = <<0, 0>>
    /\ textures = [tex \in SourceTextures |-> SourceTexture(tex)]
    /\ transfers_ = <<>>
    /\ member = [stage \in ManagedStages |-> [target |-> NULL, convert |-> NULL]]
    /\ target_inputs = <<>>
    /\ render_inputs = {}
    /\ stage_created = [stage \in ManagedStages |-> 0]
    /\ shader_uniforms = <<>>
    /\ null_deref = FALSE

LifeNext ==
    \/ \E src \in SourceTextures : add_transfer(src)
    \/ \E size \in ScreenSizes : set_resolution(size)
    \/ \E stage \in ManagedStages : StageManager_create(stage)
    \/ \E stage \in ManagedStages : StageManager_get_produced_pipes(stage)
    \/ \E stage \in {UpdatePreviousPipesStage, SkyAOCaptureStage} :
          StageManager_reload_shaders(stage)
    \/ \E stage \in ManagedStages : StageManager_handle_window_resize(stage)
    \/ \E stage \in ManagedStages, inp \in ShaderInputValues :
          set_shader_input(stage, inp)

-----------------------------------------------------------------------------
(* Specifications *)

Init == LightInit /\ StageInit /\ LifeInit

Next == StageNext /\ UNCHANGED lightVars /\ UNCHANGED lifeVars

\* the plugin and its render stages
Spec == Init /\ [][Next]_vars

LightSpecInit ==
    /\ LightInit
    /\ StageInit
    /\ LifeInit
    /\ enabled_plugins = {}

LightSpecNext == LightNext /\ UNCHANGED stageVars /\ UNCHANGED lifeVars

\* one light under its public operations
LightSpec == LightSpecInit /\ [][LightSpecNext]_vars

StageSpecInit ==
    /\ LightInit
    /\ StageInit
    /\ LifeInit
    /\ enabled_plugins = {}

StageSpecNext == LifeNext /\ UNCHANGED lightVars

\* the stage manager driving three stages through their lifecycle
StageSpec == StageSpecInit /\ [][StageSpecNext]_vars

-----------------------------------------------------------------------------
(* Properties of the render stages and the plugin, under Spec *)

range(seq) == {seq[i] : i \in 1..Len(seq)}

\* C1: handle_window_resize() calls the stage's set_dimensions() first and
\* only then consider_resize(), exactly once on each target the stage owns
\* and on no other target.
C1_ResizeAfterDimensions ==
    scall.op = "handle_window_resize" =>
        LET owned == ids(targets_[scall.stage]) IN
        /\ Len(slog) = 1 + Cardinality(owned)
        /\ slog[1] = Ev("set_dimensions", scall.stage, NULL)
        /\ \A i \in 2..Len(slog) :
              /\ slog[i].ev = "consider_resize"
              /\ slog[i].target \in owned
        /\ \A id \in owned :
              Cardinality({i \in 1..Len(slog) :
                              slog[i].ev = "consider_resize" /\ slog[i].target = id}) = 1

\* a stage owning two targets was resized while another stage owned a target too
C1_Witness ==
    /\ scall.op = "handle_window_resize"
    /\ Cardinality(targets_[scall.stage]) = 2
    /\ Len(slog) = 3
    /\ \E other \in Stages \ {scall.stage} : targets_[other] # {}

\* the key create_target(name) is to register the target under
ExpectedKey(stage, name) == "env_probes:" \o stage \o ":" \o name

\* C2: create_target(name) registers a new target under
\* '<plugin_id>:<stage_id>:<name>' and returns it; when the stage already owns
\* a target with that key it reports 'Overriding existing target', returns
\* null and leaves every target map unchanged; so no stage ever owns two
\* targets with the same key.
C2_CreateTarget ==
    /\ [](\A stage \in Stages : \A e1, e2 \in targets_[stage] :
              e1.key = e2.key => e1 = e2)
    /\ [][scall'.op = "create_target" =>
            LET stage == scall'.stage
                key == ExpectedKey(stage, scall'.name)
            IN  IF key \in keys(targets_[stage])
                  THEN /\ sret' = NULL
                       /\ serr' = "Overriding existing target: " \o key
                       /\ targets_' = targets_
                       /\ target_removed' = target_removed
                  ELSE /\ sret' # NULL
                       /\ sret' \notin live_targets
                       /\ serr' = ""
                       /\ targets_' = [targets_ EXCEPT
                              ![stage] = @ \cup {[key |-> key, id |-> sret']}]
         ]_vars

\* create_target was refused for a key the stage holds, after a removal
C2_Witness ==
    /\ scall.op = "create_target"
    /\ sret = NULL
    /\ serr = "Overriding existing target: " \o ExpectedKey(scall.stage, scall.name)
    /\ ExpectedKey(scall.stage, scall.name) \in keys(targets_[scall.stage])
    /\ Cardinality(targets_[scall.stage]) = 2

\* C3: after on_stage_setup() the plugin's stages are capture, cull, apply in
\* that order; the capture stage requires the two scattering pipes exactly
\* when 'scattering' is enabled, and the PSSM pipe and PSSM input exactly
\* when 'pssm' is enabled; 'EnvProbes' is among the CullLightsStage global
\* required inputs.
C3_StageSetup ==
    setup_done =>
        /\ assigned_stages_ = <<CaptureStage, CullStage, ApplyStage>>
        /\ ("ScatteringIBLSpecular" \in range(required_pipes))
              <=> ("scattering" \in enabled_plugins)
        /\ ("ScatteringIBLDiffuse" \in range(required_pipes))
              <=> ("scattering" \in enabled_plugins)
        /\ ("PSSMSceneSunShadowMapPCF" \in range(required_pipes))
              <=> ("pssm" \in enabled_plugins)
        /\ ("PSSMSceneSunShadowMVP" \in range(required_inputs))
              <=> ("pssm" \in enabled_plugins)
        /\ "PSSMSceneSunShadowMVP" \notin range(required_pipes)
        /\ "PSSMSceneSunShadowMapPCF" \notin range(required_inputs)
        /\ "EnvProbes" \in range(global_required_inputs)

\* the setup ran with 'pssm' enabled and 'scattering' disabled
C3_Witness ==
    /\ setup_done
    /\ scall.op = "on_stage_setup"
    /\ enabled_plugins = {"pssm"}
    /\ required_pipes = <<"PSSMSceneSunShadowMapPCF">>

-----------------------------------------------------------------------------
(* Properties of RPLight, under LightSpec *)

all_flagged(sources) == \A i \in 1..Len(sources) : sources[i].needs_update

same_sources_flagged(before, after) ==
    /\ Len(after) = Len(before)
    /\ \A i \in 1..Len(before) : after[i].id = before[i].id
    /\ all_flagged(after)

\* C4: set_casts_shadows(flag) on an attached light prints an error and keeps
\* get_casts_shadows(); on a light without a slot get_casts_shadows() returns
\* flag afterwards; no step changes the setting of an attached light.
C4_CastsShadowsGuard ==
    [][/\ lcall'.op = "set_casts_shadows" =>
            IF _slot >= 0
              THEN lerr' /\ get_casts_shadows' = get_casts_shadows
              ELSE ~lerr' /\ get_casts_shadows' = lcall'.flag
       /\ _slot >= 0 => get_casts_shadows' = get_casts_shadows
      ]_vars

\* an attached light was asked to flip its setting and refused
C4_Witness ==
    /\ lcall.op = "set_casts_shadows"
    /\ lerr
    /\ _slot >= 0
    /\ get_casts_shadows # lcall.flag

\* C5: has_slot() is false on a new light, true after assign_slot(s) until
\* remove_slot(), and changed by no other operation; after remove_slot(),
\* get_slot() is -1 and has_slot() is false; after assign_slot(s), get_slot()
\* is s.
C5_SlotLifecycle ==
    /\ [](lcall.op = "RPLight" => ~has_slot /\ get_slot = -1)
    /\ [][/\ lcall'.op = "assign_slot" => get_slot' = lcall'.n /\ has_slot'
          /\ lcall'.op = "remove_slot" => get_slot' = -1 /\ ~has_slot'
          /\ lcall'.op \notin {"assign_slot", "remove_slot"} =>
                get_slot' = get_slot /\ has_slot' = has_slot
         ]_vars

\* the light was attached at slot 0
C5_Witness ==
    /\ lcall.op = "assign_slot"
    /\ lcall.n = 0
    /\ get_slot = 0
    /\ has_slot

\* C6: both set_pos overloads store the position, set the light's
\* needs-update flag and flag every attached shadow source; get_pos() then
\* returns the position set.
C6_SetPos ==
    [][lcall'.op \in {"set_pos_xyz", "set_pos_vec"} =>
          /\ get_pos' = lcall'.vec
          /\ get_needs_update'
          /\ same_sources_flagged(_shadow_sources, _shadow_sources')
      ]_vars

\* the position was set on a light with two shadow sources
C6_Witness ==
    /\ lcall.op = "set_pos_vec"
    /\ get_pos = Vec3(1, 2, 3)
    /\ get_needs_update
    /\ Len(_shadow_sources) = 2
    /\ all_flagged(_shadow_sources)

OwnFlagSetters ==
    {"set_energy", "set_color_vec", "set_color_rgb", "set_ies_profile",
     "clear_ies_profile"}

\* C7: set_needs_update, set_energy, set_color, set_ies_profile and
\* clear_ies_profile set the light's own needs-update flag and leave the
\* shadow source list and every source's needs-update flag unchanged.
C7_OwnFlagOnly ==
    [][/\ lcall'.op \in OwnFlagSetters =>
            get_needs_update' /\ _shadow_sources' = _shadow_sources
       /\ lcall'.op = "set_needs_update" =>
            get_needs_update' = lcall'.flag /\ _shadow_sources' = _shadow_sources
      ]_vars

\* the colour was set while a shadow source needed no update
C7_Witness ==
    /\ lcall.op = "set_color_vec"
    /\ get_needs_update
    /\ Len(_shadow_sources) = 2
    /\ ~_shadow_sources[1].needs_update

\* C8: once set_pos, set_color, set_energy, set_ies_profile or
\* clear_ies_profile was called, get_needs_update() stays true until
\* set_needs_update(false): only that call takes the flag from true to false.
C8_PendingUpdateKept ==
    [][/\ lcall'.op \in OwnFlagSetters \cup {"set_pos_xyz", "set_pos_vec"} =>
            get_needs_update'
       /\ (get_needs_update /\ ~get_needs_update') =>
            (lcall'.op = "set_needs_update" /\ lcall'.flag = FALSE)
      ]_vars

\* the light was detached while its update was pending
C8_Witness ==
    /\ lcall.op = "remove_slot"
    /\ get_needs_update
    /\ Len(_shadow_sources) > 0

C10_ResolutionRange ==
    [][lcall'.op = "set_shadow_map_resolution" =>
          IF 32 <= lcall'.n /\ lcall'.n <= 16384
            THEN /\ ~lassert'
                 /\ get_shadow_map_resolution' = lcall'.n
                 /\ same_sources_flagged(_shadow_sources, _shadow_sources')
            ELSE /\ lassert'
                 /\ get_shadow_map_resolution' = get_shadow_map_resolution
                 /\ _shadow_sources' = _shadow_sources
      ]_vars

\* the smallest accepted resolution was stored on a light with a shadow source
C10_Witness ==
    /\ lcall.op = "set_shadow_map_resolution"
    /\ lcall.n = 32
    /\ ~lassert
    /\ get_shadow_map_resolution = 32
    /\ Len(_shadow_sources) > 0

\* C11 as stated: a negative or zero near plane fails the assertion and
\* changes nothing; every positive near plane is stored and invalidates the
\* shadow sources.
C11_Original ==
    [][lcall'.op = "set_near_plane" =>
          IF lcall'.n > 0
            THEN /\ ~lassert'
                 /\ get_near_plane' = lcall'.n
                 /\ same_sources_flagged(_shadow_sources, _shadow_sources')
            ELSE /\ lassert'
                 /\ get_near_plane' = get_near_plane
                 /\ _shadow_sources' = _shadow_sources
      ]_vars

\* C11: set_near_plane(p) with p <= 0.00001 (10 millionths), so also a
\* negative or zero p, fails the assertion and leaves the stored near plane
\* and the shadow sources unchanged; every p > 0.00001 is stored and all
\* attached shadow sources are invalidated.
C11_NearPlaneRange ==
    [][lcall'.op = "set_near_plane" =>
          IF lcall'.n > 10
            THEN /\ ~lassert'
                 /\ get_near_plane' = lcall'.n
                 /\ same_sources_flagged(_shadow_sources, _shadow_sources')
            ELSE /\ lassert'
                 /\ get_near_plane' = get_near_plane
                 /\ _shadow_sources' = _shadow_sources
      ]_vars

\* a positive near plane below the threshold was refused on a light with a
\* shadow source that needs no update
C11_Witness ==
    /\ lcall.op = "set_near_plane"
    /\ lcall.n = 5
    /\ lassert
    /\ get_near_plane # 5
    /\ Len(_shadow_sources) > 0
    /\ ~_shadow_sources[1].needs_update

\* C12: a new light has no IES profile; set_ies_profile(p) makes
\* get_ies_profile() return p and has_ies_profile() true unless p is -1;
\* clear_ies_profile() leaves get_ies_profile() at -1, has_ies_profile()
\* false and the light flagged; no other operation changes the profile.
C12_IesProfile ==
    /\ [](lcall.op = "RPLight" => ~has_ies_profile /\ get_ies_profile = -1)
    /\ [][/\ lcall'.op = "set_ies_profile" =>
                /\ get_ies_profile' = lcall'.n
                /\ has_ies_profile' = (lcall'.n # -1)
                /\ get_needs_update'
          /\ lcall'.op = "clear_ies_profile" =>
                /\ get_ies_profile' = -1
                /\ ~has_ies_profile'
                /\ get_needs_update'
          /\ lcall'.op \notin {"set_ies_profile", "clear_ies_profile"} =>
                get_ies_profile' = get_ies_profile /\ has_ies_profile' = has_ies_profile
         ]_vars

\* profile handle 0 was assigned
C12_Witness ==
    /\ lcall.op = "set_ies_profile"
    /\ lcall.n = 0
    /\ get_ies_profile = 0
    /\ has_ies_profile

-----------------------------------------------------------------------------
(* Properties of the stage lifecycle, under StageSpec *)

\* the pointer a stage's reload_shaders() and get_produced_pipes() read
dereferenced(stage) ==
    IF stage = SkyAOCaptureStage THEN member[stage].convert ELSE member[stage].target

\* the name of the first target a stage's create() asks for
first_target(stage) ==
    CASE stage = UpdatePreviousPipesStage -> "StorePreviousPipes"
      [] stage = PSSMShadowStage -> "ShadowMap"
      [] stage = SkyAOCaptureStage -> "SkyAOCapture"

names(inputs) == {i.name : i \in inputs}

\* C14: the base set_shader_input(inp) gives the input to every target the
\* stage owns at the call and changes nothing else; the input is not kept, so
\* the targets a later create() makes do not have it.
C14_InputNotRecorded ==
    [][/\ (scall'.op = "set_shader_input" /\ scall'.stage # PSSMShadowStage) =>
            /\ DOMAIN target_inputs' = DOMAIN target_inputs
            /\ \A t \in DOMAIN target_inputs :
                  target_inputs'[t] =
                     IF t \in ids(targets_[scall'.stage])
                       THEN {i \in target_inputs[t] : i.name # scall'.name}
                               \cup {[name |-> scall'.name, tex |-> NULL]}
                       ELSE target_inputs[t]
            /\ UNCHANGED <<targets_, render_inputs, member, textures, transfers_,
                           stage_created, shader_uniforms, Globals_resolution>>
       /\ scall'.op = "create" =>
            \A t \in DOMAIN target_inputs' \ DOMAIN target_inputs :
                \A inp \in ShaderInputValues : inp.name \notin names(target_inputs'[t])
      ]_vars

\* the sky AO stage gave an input to its two targets and the target of the
\* previous-pipes stage does not have it
C14_Witness ==
    /\ scall.op = "set_shader_input"
    /\ scall.stage = SkyAOCaptureStage
    /\ Cardinality(targets_[SkyAOCaptureStage]) = 2
    /\ \A t \in ids(targets_[SkyAOCaptureStage]) : "inp" \in names(target_inputs[t])
    /\ targets_[UpdatePreviousPipesStage] # {}
    /\ \A t \in ids(targets_[UpdatePreviousPipesStage]) :
          "inp" \notin names(target_inputs[t])

\* C15: handle_window_resize() on the previous-pipes stage gives every
\* transfer's destination the x and y size of Globals::resolution, changes no
\* source texture and keeps the transfers, the inputs bound and the uniforms
\* declared; the created stage's target has SrcTex<i> and DestTex<i> bound to
\* the i-th transfer for i = 0..n-1.
C15_ResizeTransfers ==
    /\ [](stage_created[UpdatePreviousPipesStage] = 1 =>
             \A i \in 1..Len(transfers_) :
                 /\ [name |-> "SrcTex" \o Digits[i], tex |-> transfers_[i].first]
                       \in target_inputs[member[UpdatePreviousPipesStage].target]
                 /\ [name |-> "DestTex" \o Digits[i], tex |-> transfers_[i].second]
                       \in target_inputs[member[UpdatePreviousPipesStage].target])
    /\ [][(scall'.op = "handle_window_resize"
             /\ scall'.stage = UpdatePreviousPipesStage) =>
            /\ transfers_' = transfers_
            /\ \A i \in 1..Len(transfers_) :
                  /\ textures'[transfers_[i].second].x_size = Globals_resolution[1]
                  /\ textures'[transfers_[i].second].y_size = Globals_resolution[2]
                  /\ textures'[transfers_[i].first] = textures[transfers_[i].first]
            /\ UNCHANGED <<target_inputs, shader_uniforms, Globals_resolution>>
         ]_vars

\* two transfers, one of a texture array, were resized to 1024 x 768
C15_Witness ==
    /\ scall.op = "handle_window_resize"
    /\ scall.stage = UpdatePreviousPipesStage
    /\ Len(transfers_) = 2
    /\ textures[transfers_[2].second].type = "array"
    /\ Globals_resolution = <<1024, 768>>
    /\ \A i \in 1..2 : textures[transfers_[i].second].x_size = 1024
    /\ \A i \in 1..2 : textures[transfers_[i].first].x_size = 4

====
